---- MODULE Spec2Model ----
(***************************************************************************)
(* Model of rotkehlchen/poloniex.py: the Poloniex exchange client.         *)
(*                                                                         *)
(* Several callers (greenlets) share one client.  Each caller runs one     *)
(* operation at a time: a history query (trades, loans, deposits and       *)
(* withdrawals), a plain signed command, or the market watcher.  Every     *)
(* operation is cut at the points where it can block or where another      *)
(* caller can be scheduled: waiting for the client's lock, the clock read  *)
(* inside _api_query, the HTTP POST/GET.                                   *)
(***************************************************************************)
EXTENDS Integers, Sequences, FiniteSets, TLC

\* ---------------------------------------------------------------- bounds
NumProcs == 2      \* concurrent callers of the one client
MaxTs == 2         \* timestamps are 0..MaxTs
MaxClock == 2      \* the millisecond clock is 1..MaxClock
NumLoans == 3      \* loans of the remote dataset
PageLimit == 2     \* stands for loans_query_return_limit (12000), scaled down
MaxSmall == 1      \* how far the row counts of a response vary
MaxAmount == 2     \* amounts of a raw trade are 0..MaxAmount
MaxFee == 1        \* fee rates of a raw trade are 0..MaxFee hundredths

\* ------------------------------------------------------ program constants
\* (mutant) one try more than the code asks for
RetryTimesMut == 5 + 1

RetryTimes == 5         \* retry_calls(5, ...)
TradeLimit == 10000     \* 'limit': 10000 / results_length >= 10000

Procs == 1..NumProcs
Ts == 0..MaxTs
Loans == 1..NumLoans
NoProc == 0

Kinds == {"trades", "loan_history", "deposits_withdrawals"}
Ops == Kinds \cup {"returnFeeInfo", "market_watcher"}
Endpoints == {"any", "capped", "newest"}

VARIABLES
    lock,       \* self.lock: the caller holding it, or NoProc
    clock,      \* time.time() in milliseconds
    signHdr,    \* self.session.headers['Sign'] of the signed request in preparation
    wire,       \* the last signed request the transport sent: its nonce, and
                \* whether its Sign header was the HMAC of its body
    sentPrev,   \* the nonce of the signed request sent before `wire` (0: none)
    cache,      \* the time-range cache, one entry per kind
    usdprice,   \* self.usdprice, as the ticker snapshot it was computed from
    closeOf,    \* remote dataset: close time of each loan
    endpoint,   \* how the remote lending endpoint picks the rows it returns
    variety,    \* how many different payloads the other endpoints answer with
    watched,    \* the caller whose successive query_trade_history calls are compared
    horizon,    \* the last value of the clock the run models
    pc,         \* where each caller is
    op,         \* the operation each caller runs
    args,       \* its arguments start_ts, end_ts, end_at_least_ts
    from_csv,   \* query_loan_history's from_csv argument
    phase,      \* loan pagination: "first" request or a "next" one
    tries,      \* retry_calls: attempts left
    attempts,   \* failed _api_query attempts of the current api_query call
    req,        \* the request dict of the current api_query call
    result,     \* the payload api_query returned to the operation
    data,       \* query_loan_history: accumulated rows
    id_set,     \* query_loan_history: ids seen
    ret,        \* the value the operation returned
    err,        \* the error the operation raised
    net,        \* whether the operation has issued a network request
    firstReq,   \* the first request the operation issued
    outcome,    \* how the operation's last _api_query attempt ended
    prev,       \* the last successful query_trade_history call of the watched caller
    csvfile,    \* what parseLoanCSV found at lendingHistory.csv ("unread": not called)
    batch,      \* query_loan_history: the rows of the last response
    raw,        \* the raw trade and pair last handed to trade_from_poloniex
    trade       \* what trade_from_poloniex made of it

shared == <<lock, clock, signHdr, wire, sentPrev, cache, usdprice>>
remote == <<closeOf, endpoint, variety, watched, horizon>>
callvars == <<tries, attempts, req, result>>
opvars == <<op, args, from_csv, phase, data, id_set, ret, err, net, firstReq, outcome, prev,
            csvfile, batch>>
tradevars == <<raw, trade>>
vars == <<lock, clock, signHdr, wire, sentPrev, cache, usdprice, closeOf, endpoint, variety, watched, horizon,
          pc, op, args, from_csv, phase, tries, attempts, req, result,
          data, id_set, ret, err, net, firstReq, outcome, prev, csvfile, batch, raw, trade>>

\* ---------------------------------------------------------------- values
Min(a, b) == IF a <= b THEN a ELSE b

Range(s) == {s[i] : i \in 1..Len(s)}

MinOf(S) == CHOOSE x \in S : \A y \in S : x <= y

RECURSIVE SetToSeq(_)
SetToSeq(S) == IF S = {} THEN <<>> ELSE <<MinOf(S)>> \o SetToSeq(S \ {MinOf(S)})

NoPayload == [tag |-> "none", n |-> 0, rows |-> <<>>]
NoArgs == [start_ts |-> 0, end_ts |-> 0, end_at_least_ts |-> 0]
NoReq == [command |-> "none", start |-> 0, end |-> 0, limit |-> 0, nonce |-> 0]
NoEntry == [present |-> FALSE, start |-> 0, end |-> 0, data |-> NoPayload]
NoWire == [nonce |-> 0, sign_ok |-> TRUE]
NoPrev == [valid |-> FALSE, args |-> NoArgs, ret |-> NoPayload]

Args == [start_ts : Ts, end_ts : Ts, end_at_least_ts : Ts]



\* ------------------------------------------------------- remote service
\* The rows of the remote dataset whose close time lies in [s, e].
Window(s, e) == {l \in Loans : s <= closeOf[l] /\ closeOf[l] <= e}

\* The row sets the lending endpoint may answer a request (s, e, lim) with.
\* "any": any rows at all (each response has pairwise distinct ids);
\* "capped": exactly lim rows of the window when it holds at least lim rows,
\* the whole window otherwise, with no promise about which rows are picked;
\* "newest": as "capped", and the rows picked are those closed last.
Responses(s, e, lim) ==
    IF endpoint = "any" THEN SUBSET Loans
    ELSE {S \in SUBSET Window(s, e) :
            /\ Cardinality(S) = Min(lim, Cardinality(Window(s, e)))
            /\ endpoint = "newest" =>
                 \A a \in S : \A b \in Window(s, e) \ S : closeOf[a] >= closeOf[b]}

\* Row counts of a trade-history response: around the 10000 cap.
TradeLens ==
    IF variety = "rich" THEN (TradeLimit - 1 - MaxSmall)..(TradeLimit + 1)
    ELSE {TradeLimit - 1, TradeLimit}

\* Row counts of a deposits/withdrawals response.
SmallLens == IF variety = "rich" THEN 0..MaxSmall ELSE {0}

OkResult(payload) == [kind |-> "ok", payload |-> payload]
ErrorResult == [kind |-> "error", payload |-> [tag |-> "error", n |-> 1, rows |-> <<>>]]
TransientFailure == [kind |-> "transient", payload |-> NoPayload]

\* What one request can produce: a parsed response, a response carrying an
\* `error` field, or a connection failure raised by the transport.
OkResponses(r) ==
    CASE r.command = "returnTradeHistory" ->
           {OkResult([tag |-> "trades", n |-> k, rows |-> <<>>]) : k \in TradeLens}
      [] r.command = "returnDepositsWithdrawals" ->
           {OkResult([tag |-> "deposits", n |-> k, rows |-> <<>>]) : k \in SmallLens}
      [] r.command = "returnLendingHistory" ->
           {OkResult([tag |-> "loans", n |-> 0, rows |-> SetToSeq(S)]) :
                S \in Responses(r.start, r.end, r.limit)}
      [] r.command = "returnFeeInfo" ->
           {OkResult([tag |-> "fees", n |-> 0, rows |-> <<>>])}
      [] OTHER ->
           {OkResult([tag |-> "ticker", n |-> 0, rows |-> <<>>])}

Outcomes(r) == OkResponses(r) \cup {ErrorResult, TransientFailure}

\* ------------------------------------------------------------- helpers
\* createTimeStamp(loan['close'], formatstr="%Y-%m-%d %H:%M:%S")
createTimeStamp(l) == closeOf[l]

\* hmac.new(self.secret, post_data, hashlib.sha512).hexdigest(): a value that
\* identifies the body it was computed from.
Hmac(body) == <<"hmac", body.command, body.start, body.end, body.limit, body.nonce>>

\* (mutant) a response with an `error` field is taken for a result
HasErrorAsResult(r) == FALSE

\* 'error' in result
HasError(r) == r.kind = "error"

\* Exchange.check_trades_cache: the stored payload when the entry of the kind
\* covers [start, end_at_least], None otherwise.
check_trades_cache(c, kind, start, end_at_least) ==
    IF c[kind].present /\ c[kind].start <= start /\ c[kind].end >= end_at_least
    THEN c[kind].data
    ELSE NoPayload

\* Exchange.update_trades_cache: overwrite the entry of the kind.
update_trades_cache(c, kind, payload, start, end) ==
    [c EXCEPT ![kind] = [present |-> TRUE, start |-> start, end |-> end, data |-> payload]]

\* (mutant) special_name is left out: the default entry, that of the trades
SpecialNameMut(kind) == "trades"

\* special_name='loan_history', special_name='deposits_withdrawals', and the
\* default for the trades: the entry a history query reads and writes.
SpecialName(kind) == kind

\* The arguments the three history queries hand to check_trades_cache.
CheckStart(a) == a.start_ts

\* (mutant) the lookup asks for coverage up to end_ts
CheckEndMut(a) == a.end_ts

CheckEnd(a) == a.end_at_least_ts

\* The window of a history query's first request.
FetchStart(a) == a.start_ts
FetchEnd(a) == a.end_ts

\* The range a history query records with update_trades_cache.
\* (mutant) the range is recorded with its bounds mixed up
StoreStartMut(a) == a.end_ts

StoreStart(a) == a.start_ts

\* (mutant) the range is recorded up to end_at_least_ts
StoreEndMut(a) == a.end_at_least_ts

StoreEnd(a) == a.end_ts

NewReq(command, start, end, limit) ==
    [command |-> command, start |-> start, end |-> end, limit |-> limit, nonce |-> 0]

NoErr == [type |-> "none", msg |-> 0]

\* ---------------------------------------------------- trade_from_poloniex
\* Raw trades of the trade history.  Amounts and rates are whole numbers; the
\* fee rate, and so the fee, is counted in hundredths (fee 1 is 0.01).
TradeTypes == {"buy", "sell", "short"}
Categories == {"exchange", "settlement"}
Dates == {"1970-01-01 00:00:01", "1970-01-01 00:00:02"}
Pairs == {<<"BTC", "ETH">>, <<"USDT", "BTC">>}
Rates == {1, 100}
RawTrades ==
    [type : TradeTypes, category : Categories, amount : 0..MaxAmount, rate : Rates,
     fee : 0..MaxFee, date : Dates]

\* get_pair_position(pair, 'first' | 'second') of a pair such as BTC_ETH
get_pair_position(pair, position) == IF position = "first" THEN pair[1] ELSE pair[2]

\* createTimeStamp(poloniex_trade['date'], formatstr="%Y-%m-%d %H:%M:%S")
TradeTimeStamp(date) == IF date = "1970-01-01 00:00:01" THEN 1 ELSE 2

\* A Python value that is a number, and the one-element tuple `(v,)`.
Scalar(v) == [wrapped |-> FALSE, value |-> v]
Tuple1(v) == [wrapped |-> TRUE, value |-> v]

\* timestamp = createTimeStamp(poloniex_trade['date'], ...),
\* (the statement ends with a comma: the right-hand side is a tuple)
TimestampOf(t) == Tuple1(TradeTimeStamp(t.date))

\* (mutant) any type but 'buy' takes the sell branch
IsSellMut(trade_type) == trade_type # "buy"

\* elif trade_type == 'sell'
IsSell(trade_type) == trade_type = "sell"

\* (mutant) the sell fee is computed as the buy fee is
SellFeeMut(amount, cost, perc_fee) == amount * perc_fee

\* sell: fee = cost * perc_fee
SellFee(amount, cost, perc_fee) == cost * perc_fee

\* buy: fee = amount * perc_fee
BuyFee(amount, perc_fee) == amount * perc_fee

\* if poloniex_trade['category'] == 'settlement': trade_type = "settlement_%s" % trade_type
TradeTypeOf(t) ==
    IF t.category = "settlement"
    THEN IF t.type = "buy" THEN "settlement_buy" ELSE "settlement_sell"
    ELSE t.type

trade_from_poloniex(t, pair) ==
    LET base_currency == get_pair_position(pair, "first")
        quote_currency == get_pair_position(pair, "second")
        made(cost, cost_currency, fee, fee_currency) ==
            [status |-> "ok", timestamp |-> TimestampOf(t), pair |-> pair,
             type |-> TradeTypeOf(t), rate |-> t.rate, cost |-> cost,
             cost_currency |-> cost_currency, fee |-> fee, fee_currency |-> fee_currency,
             amount |-> t.amount, location |-> "poloniex"]
    IN  IF t.type = "buy"
        THEN made(t.rate * t.amount, base_currency, BuyFee(t.amount, t.fee), quote_currency)
        ELSE IF IsSell(t.type)
        THEN made(t.amount * t.rate, base_currency,
                  SellFee(t.amount, t.amount * t.rate, t.fee), base_currency)
        ELSE [status |-> "ValueError"]

\* A call of trade_from_poloniex.
Convert(t, pair) ==
    /\ raw' = [type |-> t.type, category |-> t.category, amount |-> t.amount,
               rate |-> t.rate, fee |-> t.fee, date |-> t.date, pair |-> pair]
    /\ trade' = trade_from_poloniex(t, pair)
    /\ UNCHANGED <<shared, remote, pc, callvars, opvars>>

\* No trade has been converted.
NoRaw == [type |-> "none", category |-> "none", amount |-> 0, rate |-> 0, fee |-> 0,
          date |-> "none", pair |-> <<>>]
NoTrade == [status |-> "none"]

\* ---------------------------------------------------------------- Init
InitClient ==
    /\ lock = NoProc
    /\ clock = 1
    /\ signHdr = <<"none">>
    /\ wire = NoWire
    /\ sentPrev = 0
    /\ cache = [k \in Kinds |-> NoEntry]
    /\ usdprice = NoPayload
    /\ pc = [p \in Procs |-> "idle"]
    /\ op = [p \in Procs |-> "none"]
    /\ args = [p \in Procs |-> NoArgs]
    /\ from_csv = [p \in Procs |-> FALSE]
    /\ phase = [p \in Procs |-> "none"]
    /\ tries = [p \in Procs |-> 0]
    /\ attempts = [p \in Procs |-> 0]
    /\ req = [p \in Procs |-> NoReq]
    /\ result = [p \in Procs |-> NoPayload]
    /\ data = [p \in Procs |-> <<>>]
    /\ id_set = [p \in Procs |-> {}]
    /\ ret = [p \in Procs |-> NoPayload]
    /\ err = [p \in Procs |-> NoErr]
    /\ net = [p \in Procs |-> FALSE]
    /\ firstReq = [p \in Procs |-> NoReq]
    /\ outcome = [p \in Procs |-> "none"]
    /\ prev = NoPrev
    /\ csvfile = [p \in Procs |-> "unread"]
    /\ batch = [p \in Procs |-> <<>>]
    /\ raw = NoRaw
    /\ trade = NoTrade

\* ------------------------------------------------------ starting a call
\* A caller that is not inside an operation enters one: its locals are fresh.
Begin(p, o, a, csv, file, at, e) ==
    /\ pc[p] \in {"idle", "done", "failed"}
    /\ pc' = [pc EXCEPT ![p] = at]
    /\ op' = [op EXCEPT ![p] = o]
    /\ args' = [args EXCEPT ![p] = a]
    /\ from_csv' = [from_csv EXCEPT ![p] = csv]
    /\ csvfile' = [csvfile EXCEPT ![p] = file]
    /\ batch' = [batch EXCEPT ![p] = <<>>]
    /\ phase' = [phase EXCEPT ![p] = "none"]
    /\ data' = [data EXCEPT ![p] = <<>>]
    /\ id_set' = [id_set EXCEPT ![p] = {}]
    /\ err' = [err EXCEPT ![p] = e]
    /\ net' = [net EXCEPT ![p] = FALSE]
    /\ firstReq' = [firstReq EXCEPT ![p] = NoReq]
    /\ outcome' = [outcome EXCEPT ![p] = "none"]
    /\ UNCHANGED <<shared, remote, tradevars, prev>>

Enter(p, o, a, csv, at) == Begin(p, o, a, csv, "unread", at, NoErr)

\* api_query: retry_calls(5, 'poloniex', command, self._api_query, command, req)
BeginCall(p, r) ==
    /\ req' = [req EXCEPT ![p] = r]
    /\ tries' = [tries EXCEPT ![p] = RetryTimes]
    /\ attempts' = [attempts EXCEPT ![p] = 0]
    /\ result' = [result EXCEPT ![p] = NoPayload]

\* The operation is over: the locals of its last api_query call are dropped.
EndCall(p) ==
    /\ req' = [req EXCEPT ![p] = NoReq]
    /\ tries' = [tries EXCEPT ![p] = 0]
    /\ attempts' = [attempts EXCEPT ![p] = 0]
    /\ result' = [result EXCEPT ![p] = NoPayload]

\* query_trade_history(start_ts, end_ts, end_at_least_ts): up to `with self.lock`
StartTrade(p, a) ==
    /\ Enter(p, "trades", a, FALSE, "chk_wait")
    /\ ret' = [ret EXCEPT ![p] = NoPayload]
    /\ UNCHANGED callvars

\* query_deposits_withdrawals(start_ts, end_ts, end_at_least_ts)
StartDeposits(p, a) ==
    /\ Enter(p, "deposits_withdrawals", a, FALSE, "chk_wait")
    /\ ret' = [ret EXCEPT ![p] = NoPayload]
    /\ UNCHANGED callvars

\* query_loan_history(start_ts, end_ts, end_at_least_ts, from_csv): the CSV
\* path returns the parsed file; a missing or malformed file falls through.
CsvPayload == [tag |-> "csv", n |-> 0, rows |-> <<>>]

\* What can be found at <data_dir>/lendingHistory.csv: a well-formed file, no
\* file, a file the csv module rejects, a file with a row of fewer than nine
\* fields, an empty file.
Files == {"ok", "missing", "bad_csv", "short_row", "empty"}

\* parseLoanCSV: the exception it raises on each of them ("none": it returns).
\* open() raises OSError, csv.reader raises csv.Error, row[8] raises
\* IndexError, next(history) raises StopIteration.
parseLoanCSV(file) ==
    CASE file = "ok" -> "none"
      [] file = "missing" -> "OSError"
      [] file = "bad_csv" -> "csv.Error"
      [] file = "short_row" -> "IndexError"
      [] OTHER -> "StopIteration"

\* An except clause that catches every exception of parseLoanCSV.
CaughtMut(e) == TRUE

\* except (OSError, IOError, csv.Error): pass
Caught(e) == e \in {"OSError", "IOError", "csv.Error"}

StartLoan(p, a, csv, file) ==
    LET raised == IF csv THEN parseLoanCSV(file) ELSE "none"
        parsed == csv /\ raised = "none"
        escapes == csv /\ raised # "none" /\ ~Caught(raised)
    IN  /\ Begin(p, "loan_history", a, csv, IF csv THEN file ELSE "unread",
                 IF parsed THEN "done" ELSE IF escapes THEN "failed" ELSE "chk_wait",
                 IF escapes THEN [type |-> raised, msg |-> 0] ELSE NoErr)
        /\ ret' = [ret EXCEPT ![p] = IF parsed THEN CsvPayload ELSE NoPayload]
        /\ UNCHANGED callvars

\* returnFeeInfo(): a plain signed command
StartFeeInfo(p) ==
    /\ Enter(p, "returnFeeInfo", NoArgs, FALSE, "api_call")
    /\ ret' = [ret EXCEPT ![p] = NoPayload]
    /\ BeginCall(p, NewReq("returnFeeInfo", 0, 0, 0))

\* market_watcher(): self.ticker = self.returnTicker()
StartMarketWatcher(p) ==
    /\ Enter(p, "market_watcher", NoArgs, FALSE, "api_call")
    /\ ret' = [ret EXCEPT ![p] = NoPayload]
    /\ BeginCall(p, NewReq("returnTicker", 0, 0, 0))

\* --------------------------------------------------------------- lock
\* `with self.lock:` around a cache check, a cache update or the usdprice
\* update: the caller blocks until the lock is free.
LockedPc(at) ==
    CASE at = "chk_wait" -> "chk_locked"
      [] at = "upd_wait" -> "upd_locked"
      [] OTHER -> "mw_locked"

\* (mutant) the lock is not released when an exception leaves the section
LockAfterErrorMut(p) == p

\* `with self.lock:` releases the lock when an exception leaves the block.
LockAfterError(p) == NoProc

\* (mutant) the cache sections do not wait for the lock
CanAcquireAlways(p) == TRUE

CanAcquire(p) == lock = NoProc

Acquire(p) ==
    /\ pc[p] \in {"chk_wait", "upd_wait", "mw_wait"}
    /\ CanAcquire(p)
    /\ lock' = p
    /\ pc' = [pc EXCEPT ![p] = LockedPc(pc[p])]
    /\ UNCHANGED <<clock, signHdr, wire, sentPrev, cache, usdprice, remote, tradevars, callvars, opvars>>

\* time.time() advances
Tick ==
    /\ clock < horizon
    /\ clock' = clock + 1
    /\ UNCHANGED <<lock, signHdr, wire, sentPrev, cache, usdprice, remote, tradevars, pc, callvars, opvars>>

\* ----------------------------------------------------------- _api_query
\* (mutant) the signed command does not wait for the lock
ApiCanAcquireAlways(p) == TRUE

\* `with self.lock:` of a signed command
ApiCanAcquire(p) == lock = NoProc

ApiAcquire(p) ==
    /\ pc[p] = "api_call"
    /\ req[p].command # "returnTicker"
    /\ ApiCanAcquire(p)
    /\ lock' = p
    /\ pc' = [pc EXCEPT ![p] = "api_locked"]
    /\ UNCHANGED <<clock, signHdr, wire, sentPrev, cache, usdprice, remote, tradevars, callvars, opvars>>

\* int(time.time() * 1000)
Nonce == clock

\* req['nonce'] = ...; sign = hmac.new(...); self.session.headers.update({'Sign': sign})
ApiNonce(p) ==
    /\ pc[p] = "api_locked"
    /\ req' = [req EXCEPT ![p].nonce = Nonce]
    /\ signHdr' = Hmac(req'[p])
    /\ pc' = [pc EXCEPT ![p] = "api_post"]
    /\ UNCHANGED <<lock, clock, wire, sentPrev, cache, usdprice, remote, tradevars,
                   tries, attempts, result, opvars>>

\* An error leaves the operation: its locals are dropped.
Fail(p, e) ==
    /\ pc' = [pc EXCEPT ![p] = "failed"]
    /\ err' = [err EXCEPT ![p] = e]
    /\ EndCall(p)
    /\ phase' = [phase EXCEPT ![p] = "none"]
    /\ data' = [data EXCEPT ![p] = <<>>]
    /\ id_set' = [id_set EXCEPT ![p] = {}]
    /\ UNCHANGED <<ret, batch>>

\* api_query handed `payload` back to the operation, which goes on at `at`.
Keep(p, payload, at) ==
    /\ pc' = [pc EXCEPT ![p] = at]
    /\ result' = [result EXCEPT ![p] = payload]
    /\ req' = [req EXCEPT ![p] = NoReq]
    /\ tries' = [tries EXCEPT ![p] = 0]
    /\ attempts' = [attempts EXCEPT ![p] = 0]
    /\ UNCHANGED <<err, phase, data, id_set, ret, batch>>

\* ------------------------------------------------- retry_calls, api_query
\* retry_calls: a connection failure uses up one try; with none left it raises
\* RemoteError, otherwise (after a sleep) the call is made again.
TriesAfterFailure(t) == t - 1

RetryCalls(p) ==
    IF TriesAfterFailure(tries[p]) = 0
    THEN Fail(p, [type |-> "RemoteError", msg |-> 0])
    ELSE /\ pc' = [pc EXCEPT ![p] = "api_sleep"]
         /\ tries' = [tries EXCEPT ![p] = TriesAfterFailure(@)]
         /\ attempts' = [attempts EXCEPT ![p] = @ + 1]
         /\ req' = [req EXCEPT ![p].nonce = 0]
         /\ UNCHANGED <<result, err, phase, data, id_set, ret, batch>>

\* retry_calls sleeps before it calls again: time passes.  (At the horizon the
\* model's clock stops.)
Sleep(p) ==
    /\ pc[p] = "api_sleep"
    /\ pc' = [pc EXCEPT ![p] = "api_call"]
    /\ clock' = IF clock < horizon THEN clock + 1 ELSE clock
    /\ UNCHANGED <<lock, signHdr, wire, sentPrev, cache, usdprice, remote, tradevars, callvars, opvars>>

\* api_query: if 'error' in result: raise PoloniexError(... result['error'])
ApiError(p, out) == Fail(p, [type |-> "PoloniexError", msg |-> out.payload.n])

\* ------------------------------------- what the operations do with a result
\* (mutant) results_length > 10000
TruncatedMut(n) == n > TradeLimit

\* results_length >= 10000
Truncated(n) == n >= TradeLimit

\* query_trade_history: the result of returnTradeHistory and its row count
TradeFetched(p, payload) ==
    IF Truncated(payload.n)
    THEN Fail(p, [type |-> "ValueError", msg |-> 0])
    ELSE Keep(p, payload, "upd_wait")

\* query_deposits_withdrawals: result = self.returnDepositsWithdrawals(start_ts, end_ts)
DepositsFetched(p, payload) == Keep(p, payload, "upd_wait")

\* (mutant) every row of a re-query is appended
MergeMut(d, rows, seen) == d \o rows

\* for loan in result: if loan['id'] not in id_set: data.append(loan)
Merge(d, rows, seen) == d \o SelectSeq(rows, LAMBDA l : l \notin seen)

\* for loan in result: id_set.add(loan['id'])
Seen(seen, rows) == seen \cup Range(rows)

\* min_ts = end_ts; for loan in result: min_ts = min(min_ts, ts)
MinTs(end_ts, rows) == MinOf({end_ts} \cup {createTimeStamp(l) : l \in Range(rows)})

\* while len(result) == loans_query_return_limit
MoreRows(rows) == Len(rows) = PageLimit

\* The while test on the response just received and, when it passes, the
\* loop body up to the next returnLendingHistory call.
LoopStep(p, rows) ==
    IF MoreRows(rows)
    THEN /\ id_set' = [id_set EXCEPT ![p] = Seen(@, rows)]
         /\ BeginCall(p, NewReq("returnLendingHistory", args[p].start_ts,
                                MinTs(args[p].end_ts, rows), PageLimit))
         /\ phase' = [phase EXCEPT ![p] = "next"]
         /\ pc' = [pc EXCEPT ![p] = "api_call"]
    ELSE /\ pc' = [pc EXCEPT ![p] = "upd_wait"]
         /\ EndCall(p)
         /\ UNCHANGED <<id_set, phase>>

\* query_loan_history: data = list(result), then the while test
LoanFirstFetched(p, payload) ==
    /\ data' = [data EXCEPT ![p] = payload.rows]
    /\ batch' = [batch EXCEPT ![p] = payload.rows]
    /\ LoopStep(p, payload.rows)
    /\ UNCHANGED <<err, ret>>

\* query_loan_history: the result of a re-query is merged, then the while test
LoanNextFetched(p, payload) ==
    /\ data' = [data EXCEPT ![p] = Merge(@, payload.rows, id_set[p])]
    /\ batch' = [batch EXCEPT ![p] = payload.rows]
    /\ LoopStep(p, payload.rows)
    /\ UNCHANGED <<err, ret>>

\* returnFeeInfo: return self.api_query("returnFeeInfo")
FeeFetched(p, payload) ==
    /\ pc' = [pc EXCEPT ![p] = "done"]
    /\ ret' = [ret EXCEPT ![p] = payload]
    /\ EndCall(p)
    /\ UNCHANGED <<err, phase, data, id_set, batch>>

\* market_watcher: self.ticker = self.returnTicker()
TickerFetched(p, payload) == Keep(p, payload, "mw_wait")

\* What follows one _api_query attempt, up to the caller's next blocking point:
\* retry_calls, the error check of api_query, the operation's own code.
Resume(p, out) ==
    IF out.kind = "transient" THEN RetryCalls(p)
    ELSE IF HasError(out) THEN ApiError(p, out)
    ELSE CASE op[p] = "trades" -> TradeFetched(p, out.payload)
           [] op[p] = "deposits_withdrawals" -> DepositsFetched(p, out.payload)
           [] op[p] = "loan_history" /\ phase[p] = "first" -> LoanFirstFetched(p, out.payload)
           [] op[p] = "loan_history" /\ phase[p] # "first" -> LoanNextFetched(p, out.payload)
           [] op[p] = "returnFeeInfo" -> FeeFetched(p, out.payload)
           [] OTHER -> TickerFetched(p, out.payload)

\* ------------------------------------------------------------ transport
\* command == "returnTicker": self.session.get(self.public_uri + command),
\* with no lock, no nonce and no signature.
ApiGet(p) ==
    /\ pc[p] = "api_call"
    /\ req[p].command = "returnTicker"
    /\ \E out \in Outcomes(req[p]) :
         /\ Resume(p, out)
         /\ outcome' = [outcome EXCEPT ![p] = out.kind]
    /\ net' = [net EXCEPT ![p] = TRUE]
    /\ firstReq' = [firstReq EXCEPT ![p] = IF net[p] THEN @ ELSE req[p]]
    /\ UNCHANGED <<shared, remote, tradevars, op, args, from_csv, csvfile, prev>>

\* ret = self.session.post('https://poloniex.com/tradingApi', req) and the end
\* of the `with` block.  A connection failure is raised either before the
\* request left (delivered = FALSE) or after.  The Sign header a finished
\* request leaves behind is overwritten before the next signed request is sent,
\* so the model forgets it here.
ApiPost(p) ==
    /\ pc[p] = "api_post"
    /\ \E out \in Outcomes(req[p]), delivered \in BOOLEAN :
         /\ out.kind # "transient" => delivered
         /\ IF delivered
            THEN /\ wire' = [nonce |-> req[p].nonce, sign_ok |-> signHdr = Hmac(req[p])]
                 /\ sentPrev' = wire.nonce
            ELSE UNCHANGED <<wire, sentPrev>>
         /\ Resume(p, out)
         /\ outcome' = [outcome EXCEPT ![p] = out.kind]
         /\ lock' = IF out.kind = "transient" THEN LockAfterError(p) ELSE NoProc
    /\ signHdr' = <<"none">>
    /\ net' = [net EXCEPT ![p] = TRUE]
    /\ firstReq' = [firstReq EXCEPT ![p] = IF net[p] THEN @ ELSE [req[p] EXCEPT !.nonce = 0]]
    /\ UNCHANGED <<clock, cache, usdprice, remote, tradevars, op, args, from_csv, csvfile, prev>>

\* ------------------------------------------------- the history queries
\* The locked cache lookup of a history query and the branch on its result:
\* a hit returns the cached payload, a miss goes on to the first request.
CheckStep(p, kind, command, limit) ==
    LET cached == check_trades_cache(cache, SpecialName(kind),
                                     CheckStart(args[p]), CheckEnd(args[p]))
    IN  /\ pc[p] = "chk_locked"
        /\ op[p] = kind
        /\ lock' = NoProc
        /\ IF cached # NoPayload
           THEN /\ pc' = [pc EXCEPT ![p] = "done"]
                /\ ret' = [ret EXCEPT ![p] = cached]
                /\ prev' = IF kind = "trades" /\ p = watched
                           THEN [valid |-> TRUE, args |-> args[p], ret |-> cached]
                           ELSE prev
                /\ UNCHANGED <<callvars, phase>>
           ELSE /\ pc' = [pc EXCEPT ![p] = "api_call"]
                /\ BeginCall(p, NewReq(command, FetchStart(args[p]), FetchEnd(args[p]), limit))
                /\ phase' = [phase EXCEPT ![p] = "first"]
                /\ UNCHANGED <<ret, prev>>
        /\ UNCHANGED <<clock, signHdr, wire, sentPrev, cache, usdprice, remote, tradevars,
                       op, args, from_csv, csvfile, batch, data, id_set, err, net,
                       firstReq, outcome>>

\* The locked cache update of a history query, and its return.
UpdateStep(p, kind, payload) ==
    /\ pc[p] = "upd_locked"
    /\ op[p] = kind
    /\ cache' = update_trades_cache(cache, SpecialName(kind), payload,
                                    StoreStart(args[p]), StoreEnd(args[p]))
    /\ lock' = NoProc
    /\ ret' = [ret EXCEPT ![p] = payload]
    /\ pc' = [pc EXCEPT ![p] = "done"]
    /\ prev' = IF kind # "trades" THEN prev
               ELSE IF p = watched THEN [valid |-> TRUE, args |-> args[p], ret |-> payload]
               ELSE NoPrev
    /\ EndCall(p)
    /\ phase' = [phase EXCEPT ![p] = "none"]
    /\ data' = [data EXCEPT ![p] = <<>>]
    /\ id_set' = [id_set EXCEPT ![p] = {}]
    /\ batch' = [batch EXCEPT ![p] = <<>>]
    /\ UNCHANGED <<clock, signHdr, wire, sentPrev, usdprice, remote, tradevars,
                   op, args, from_csv, csvfile, err, net, firstReq, outcome>>

\* query_trade_history: with self.lock: cache = self.check_trades_cache(...)
TradeCheck(p) == CheckStep(p, "trades", "returnTradeHistory", TradeLimit)

\* query_trade_history: with self.lock: self.update_trades_cache(result, start_ts, end_ts)
TradeUpdate(p) == UpdateStep(p, "trades", result[p])

\* query_deposits_withdrawals: the lookup and the update
DepositsCheck(p) ==
    CheckStep(p, "deposits_withdrawals", "returnDepositsWithdrawals", 0)

DepositsUpdate(p) == UpdateStep(p, "deposits_withdrawals", result[p])

\* query_loan_history: the lookup and the update
LoanCheck(p) == CheckStep(p, "loan_history", "returnLendingHistory", PageLimit)

LoanUpdate(p) ==
    UpdateStep(p, "loan_history", [tag |-> "loans", n |-> 0, rows |-> data[p]])

\* market_watcher: with self.lock: self.usdprice[...] = FVal(self.ticker[...]['last'])
MarketUpdate(p) ==
    /\ pc[p] = "mw_locked"
    /\ usdprice' = result[p]
    /\ lock' = NoProc
    /\ pc' = [pc EXCEPT ![p] = "done"]
    /\ EndCall(p)
    /\ UNCHANGED <<clock, signHdr, wire, sentPrev, cache, remote, tradevars, opvars>>

\* An exception raised inside a locked cache lookup, cache update or usdprice
\* update (the cache file cannot be read or written, the ticker lacks a
\* market): it leaves the `with` block and the operation.
SectionFails(p) ==
    /\ pc[p] \in {"chk_locked", "upd_locked", "mw_locked"}
    /\ lock' = LockAfterError(p)
    /\ Fail(p, [type |-> IF pc[p] = "mw_locked" THEN "KeyError" ELSE "IOError", msg |-> 0])
    /\ UNCHANGED <<clock, signHdr, wire, sentPrev, cache, usdprice, remote, tradevars,
                   op, args, from_csv, csvfile, net, firstReq, outcome, prev>>

\* ------------------------------------------------------ specifications
\* Concurrent callers: every operation, one window, one dataset, plain payloads.
ConcArgs == {[start_ts |-> 0, end_ts |-> MaxTs, end_at_least_ts |-> MaxTs]}

Init ==
    /\ InitClient
    /\ closeOf = [l \in Loans |-> l]
    /\ endpoint = "newest"
    /\ variety = "plain"
    /\ watched = NoProc
    /\ horizon = MaxClock

Next ==
    \/ Tick
    \/ \E p \in Procs :
         \/ \E a \in ConcArgs : StartTrade(p, a)
         \/ \E a \in ConcArgs : StartDeposits(p, a)
         \/ \E a \in ConcArgs : StartLoan(p, a, FALSE, "missing")
         \/ StartFeeInfo(p)
         \/ StartMarketWatcher(p)
         \/ Acquire(p)
         \/ ApiGet(p)
         \/ ApiAcquire(p)
         \/ ApiNonce(p)
         \/ ApiPost(p)
         \/ Sleep(p)
         \/ TradeCheck(p) \/ TradeUpdate(p)
         \/ DepositsCheck(p) \/ DepositsUpdate(p)
         \/ LoanCheck(p) \/ LoanUpdate(p)
         \/ MarketUpdate(p)
         \/ SectionFails(p)

Spec == Init /\ [][Next]_vars

\* One caller, every window, payloads that differ from one fetch to the next:
\* the cache rules and the retry rule.  Time is not observed: the clock stays put.
SeqArgs == {a \in Args : a.start_ts <= 1 /\ a.end_ts >= 1 /\ a.end_at_least_ts >= 1}

InitSeq ==
    /\ InitClient
    /\ closeOf = [l \in Loans |-> l]
    /\ endpoint = "newest"
    /\ variety = "rich"
    /\ watched = 1
    /\ horizon = 1

NextSeq ==
    \/ \E a \in SeqArgs : StartTrade(1, a)
    \/ \E a \in SeqArgs : StartDeposits(1, a)
    \/ \E a \in SeqArgs : StartLoan(1, a, FALSE, "missing")
    \/ StartFeeInfo(1)
    \/ Acquire(1)
    \/ ApiAcquire(1)
    \/ ApiNonce(1)
    \/ ApiPost(1)
    \/ Sleep(1)
    \/ TradeCheck(1) \/ TradeUpdate(1)
    \/ DepositsCheck(1) \/ DepositsUpdate(1)
    \/ LoanCheck(1) \/ LoanUpdate(1)

SpecSeq == InitSeq /\ [][NextSeq]_vars

\* One caller paging through the loan history of every small dataset (loans
\* numbered in the order they closed), against each kind of lending endpoint.
LoanArgs == {a \in Args : a.start_ts >= 1 /\ a.end_ts >= 1 /\ a.end_at_least_ts = a.end_ts}

Datasets == {f \in [Loans -> 1..MaxTs] : \A a, b \in Loans : a <= b => f[a] <= f[b]}

InitLoan ==
    /\ InitClient
    /\ closeOf \in Datasets
    /\ endpoint \in Endpoints
    /\ variety = "plain"
    /\ watched = NoProc
    /\ horizon = 1

NextLoan ==
    \/ \E a \in LoanArgs, csv \in BOOLEAN, file \in Files : StartLoan(1, a, csv, file)
    \/ Acquire(1)
    \/ ApiAcquire(1)
    \/ ApiNonce(1)
    \/ ApiPost(1)
    \/ Sleep(1)
    \/ LoanCheck(1) \/ LoanUpdate(1)

SpecLoan == InitLoan /\ [][NextLoan]_vars

\* The same, with the caller never stopping while it has a step to take: the
\* code between two blocking points runs on, the lock is free when it is asked
\* for (there is one caller), and every request is answered or fails.
SpecLoanFair == InitLoan /\ [][NextLoan]_vars /\ WF_vars(NextLoan)

\* trade_from_poloniex on every raw trade of the bounded sets.
InitTrade ==
    /\ InitClient
    /\ closeOf = [l \in Loans |-> l]
    /\ endpoint = "newest"
    /\ variety = "plain"
    /\ watched = NoProc
    /\ horizon = 1

NextTrade == \E t \in RawTrades, pair \in Pairs : Convert(t, pair)

SpecTrade == InitTrade /\ [][NextTrade]_vars

\* ------------------------------------------------------------ properties
\* Where a caller is between taking the lock of a signed command and the end
\* of its POST, and where it is inside a locked cache lookup or update.
SignedSection == {"api_locked", "api_post"}
CacheSection == {"chk_locked", "upd_locked"}

\* C1: the nonces of the signed requests, in the order the transport sends
\* them, are strictly increasing: each request sent carries a larger nonce
\* than the request sent before it.  (Stated for the requests sent before the
\* model's clock stops at the horizon.)
NonceStrictlyIncreasing ==
    (sentPrev # 0 /\ wire.nonce < horizon) => sentPrev < wire.nonce

\* What the lock does give: requests leave in the order their nonces were
\* read, so the nonces never decrease.
NonceNonDecreasing == sentPrev <= wire.nonce

\* C2: nonce, signature and POST of a signed request are one critical section:
\* at most one caller is between taking the lock in _api_query and the end of
\* its POST, and that caller holds the lock, so no other signed call reads a
\* nonce or sends in between.
OneSignedCallAtATime ==
    \A p \in Procs :
        pc[p] \in SignedSection =>
            /\ lock = p
            /\ \A q \in Procs \ {p} : pc[q] \notin SignedSection

\* C2 witness: one caller has read its nonce and is about to POST while another
\* caller of a signed command waits for the lock.
ContendedSignedCall ==
    \E p, q \in Procs :
        /\ p # q
        /\ pc[p] = "api_post"
        /\ pc[q] = "api_call"
        /\ req[q].command # "returnTicker"

\* C10: every cache lookup and every cache update runs with the client's lock
\* held by the caller doing it, so it overlaps no other caller's cache access
\* and no other caller's signed send.
CacheAccessUnderLock ==
    \A p \in Procs :
        pc[p] \in CacheSection =>
            /\ lock = p
            /\ \A q \in Procs \ {p} : pc[q] \notin (CacheSection \cup SignedSection)

\* C10 witness: one caller is inside its locked cache update while another
\* waits for the lock to look the cache up.
ContendedCacheAccess ==
    \E p, q \in Procs :
        /\ p # q
        /\ pc[p] = "upd_locked"
        /\ pc[q] = "chk_wait"

\* ------------------------------------------- query_trade_history, twice
\* The watched caller's cache lookup in a query_trade_history call whose
\* arguments are those of its last successful call, with no update of the
\* trades entry in between; and that call being answered from the cache.
SecondCallStep(p) ==
    /\ p = watched
    /\ pc[p] = "chk_locked"
    /\ op[p] = "trades"
    /\ pc'[p] # "chk_locked"
    /\ prev.valid
    /\ prev.args = args[p]

AnsweredFromCache(p) ==
    /\ pc'[p] = "done"
    /\ ret'[p] = prev.ret
    /\ ~net'[p]

\* C3 as stated: for every start_ts, end_ts and end_at_least_ts, a second
\* query_trade_history call with the arguments of a successful first call, and
\* no cache update in between, returns the first call's payload and makes no
\* network request.
TradeHistoryIdempotent ==
    [][\A p \in Procs : SecondCallStep(p) => AnsweredFromCache(p)]_vars

\* C3 amended: the same, for arguments with end_at_least_ts <= end_ts.
TradeHistoryIdempotentInRange ==
    [][\A p \in Procs :
         (SecondCallStep(p) /\ args[p].end_at_least_ts <= args[p].end_ts)
             => AnsweredFromCache(p)]_vars

\* C3 witness: a query_trade_history call that repeats the window of the call
\* that filled the cache has returned that call's payload without a request.
RepeatedTradeQueryServed ==
    \E p \in Procs :
        /\ p = watched
        /\ pc[p] = "done"
        /\ op[p] = "trades"
        /\ ~net[p]
        /\ prev.valid
        /\ prev.args = args[p]
        /\ ret[p] = prev.ret
        /\ cache["trades"].start = args[p].start_ts
        /\ cache["trades"].end = args[p].end_ts
        /\ cache["trades"].data = ret[p]
\* ------------------------------------------------- query_loan_history
NoDuplicates(rows) ==
    \A i, j \in 1..Len(rows) : rows[i] = rows[j] => i = j

\* The loans of the dataset that close inside the window of the arguments.
Requested(a) == Window(a.start_ts, a.end_ts)

\* C4: against an endpoint that returns exactly `limit` rows of a window that
\* holds at least `limit` rows, and all rows of a smaller window, the list
\* query_loan_history returns from the network holds every loan of the dataset
\* that closes inside [start_ts, end_ts], rows that share the minimum close
\* time of a full batch included.
PaginationComplete ==
    \A p \in Procs :
        (/\ endpoint = "capped"
         /\ pc[p] = "done"
         /\ op[p] = "loan_history"
         /\ net[p])
            => Range(ret[p].rows) = Requested(args[p])

\* The same against an endpoint that returns the `limit` most recently closed
\* rows of the window: there the returned list is complete.
PaginationCompleteNewestFirst ==
    \A p \in Procs :
        (/\ endpoint = "newest"
         /\ pc[p] = "done"
         /\ op[p] = "loan_history"
         /\ net[p])
            => Range(ret[p].rows) = Requested(args[p])

\* C5: whatever rows the successive responses hold (each response with
\* distinct ids), the accumulated list never holds an id twice, neither while
\* it is built nor when it is returned and written to the cache; between two
\* requests it holds exactly one record per id received so far.
LoanIdsUnique ==
    /\ \A p \in Procs :
         /\ NoDuplicates(data[p])
         /\ NoDuplicates(ret[p].rows)
         /\ (phase[p] = "next" /\ pc[p] \in {"api_call", "api_locked", "api_post", "api_sleep"})
                => (Range(data[p]) = id_set[p] /\ Len(data[p]) = Cardinality(id_set[p]))
    /\ NoDuplicates(cache["loan_history"].data.rows)

\* C5 witness: full batches that overlap have been merged (the batches hold
\* PageLimit rows each, the list holds every loan of the dataset once).
OverlappingBatchesMerged ==
    \E p \in Procs :
        /\ endpoint = "any"
        /\ pc[p] = "api_call"
        /\ phase[p] = "next"
        /\ Len(data[p]) = NumLoans
        /\ NumLoans < 2 * PageLimit
\* ------------------------------------------- the 10000 rows of a response
\* An _api_query attempt of caller p ends in this step.
AttemptStep(p) == pc[p] = "api_post" /\ pc'[p] # "api_post"

\* C6: a returnTradeHistory response with as many rows as the 10000 cap makes
\* query_trade_history fail with an error, return nothing and leave the cache
\* as it was: a response that is kept has fewer rows, and no payload with
\* 10000 rows or more is ever returned or written to the trades entry.
TruncationIsAnError ==
    [][\A p \in Procs :
         /\ (AttemptStep(p) /\ op[p] = "trades" /\ outcome'[p] = "ok") =>
              \/ /\ pc'[p] = "upd_wait"
                 /\ result'[p].n < TradeLimit
              \/ /\ pc'[p] = "failed"
                 /\ err'[p].type = "ValueError"
                 /\ ret'[p] = NoPayload
                 /\ cache' = cache
         /\ (op'[p] = "trades" /\ ret'[p] # NoPayload) => ret'[p].n < TradeLimit
         /\ cache'["trades"].present => cache'["trades"].data.n < TradeLimit
         /\ cache'["trades"] # cache["trades"] =>
              \E q \in Procs :
                  /\ pc[q] = "upd_locked"
                  /\ op[q] = "trades"
                  /\ result[q].n < TradeLimit
                  /\ cache'["trades"].data = result[q]]_vars

\* C6 witness: query_trade_history failed on a full response and the entry an
\* earlier call wrote is still in the cache.
TruncatedQueryFailed ==
    \E p \in Procs :
        /\ pc[p] = "failed"
        /\ op[p] = "trades"
        /\ err[p].type = "ValueError"
        /\ ret[p] = NoPayload
        /\ cache["trades"].present

\* ------------------------------------------------------------- api_query
\* C7: one api_query call makes at most 5 attempts; a connection failure is
\* followed by another attempt unless it is the fifth in a row, which raises
\* RemoteError; a response ends the call at once, and one with an `error`
\* field raises PoloniexError with that message, without another attempt.
BoundedRetry ==
    [][\A p \in Procs :
         AttemptStep(p) =>
            /\ attempts[p] + 1 <= 5
            /\ outcome'[p] = "transient" =>
                 IF attempts[p] + 1 < 5
                 THEN /\ pc'[p] = "api_sleep"
                      /\ attempts'[p] = attempts[p] + 1
                      /\ err'[p] = NoErr
                 ELSE /\ pc'[p] = "failed"
                      /\ err'[p].type = "RemoteError"
            /\ err'[p].type = "RemoteError" =>
                 (attempts[p] + 1 = 5 /\ outcome'[p] = "transient")
            /\ outcome'[p] = "error" =>
                 /\ pc'[p] = "failed"
                 /\ err'[p] = [type |-> "PoloniexError", msg |-> ErrorResult.payload.n]
            /\ outcome'[p] = "ok" =>
                 /\ pc'[p] # "api_sleep"
                 /\ attempts'[p] = 0
                 /\ err'[p].type \notin {"RemoteError", "PoloniexError"}]_vars

\* C7 witness: a call gave up with RemoteError after its last attempt failed.
RetriesExhausted ==
    \E p \in Procs :
        /\ pc[p] = "failed"
        /\ err[p].type = "RemoteError"
        /\ outcome[p] = "transient"

\* ------------------------------------------------------------- the cache
\* The entry covers the range a lookup asks for.
Covers(e, a) == e.present /\ e.start <= a.start_ts /\ e.end >= a.end_at_least_ts

\* C8: a history query that looks the cache up is answered from it, with no
\* network request, exactly when the entry of its kind has start <= start_ts
\* and end >= end_at_least_ts; with no entry or an entry that does not cover
\* the range it goes on to the network.
CacheHitRule ==
    [][\A p \in Procs :
         /\ (pc[p] = "chk_locked" /\ pc'[p] # "chk_locked") =>
              IF Covers(cache[op[p]], args[p])
              THEN /\ pc'[p] = "done"
                   /\ ret'[p] = cache[op[p]].data
                   /\ ~net'[p]
                   /\ req'[p] = NoReq
              ELSE /\ pc'[p] = "api_call"
                   /\ ret'[p] = NoPayload
                   /\ req'[p].command # "none"
         /\ pc'[p] \in {"upd_wait", "upd_locked"} => net'[p]
         /\ (pc'[p] = "done" /\ op'[p] \in Kinds /\ ~from_csv'[p] /\ ~net'[p]) =>
              (Covers(cache'[op'[p]], args'[p]) /\ ret'[p] = cache'[op'[p]].data)]_vars

\* C8 witness: an entry that starts early enough but ends before
\* end_at_least_ts was not used: the query is on its way to the network.
PartialCoverageMisses ==
    \E p \in Procs :
        /\ pc[p] = "api_call"
        /\ op[p] \in Kinds
        /\ phase[p] = "first"
        /\ ~net[p]
        /\ cache[op[p]].present
        /\ cache[op[p]].start <= args[p].start_ts
        /\ cache[op[p]].end < args[p].end_at_least_ts

\* What a history query has fetched when it reaches its cache update.
Fetched(p) ==
    IF op[p] = "loan_history" THEN [tag |-> "loans", n |-> 0, rows |-> data[p]]
    ELSE result[p]

\* C9: after a miss the first request of a history query asks for exactly
\* [start_ts, end_ts]; on success the entry of the kind becomes the fetched
\* payload with the range [start_ts, end_ts], whatever the entry held before,
\* and nothing else changes the cache.
FullWindowFetchAndReplace ==
    [][\A p \in Procs :
         /\ (pc[p] = "chk_locked" /\ pc'[p] = "api_call") =>
              /\ req'[p].start = args[p].start_ts
              /\ req'[p].end = args[p].end_ts
         /\ (net'[p] /\ op'[p] \in Kinds) =>
              /\ firstReq'[p].start = args'[p].start_ts
              /\ firstReq'[p].end = args'[p].end_ts
         /\ (pc[p] = "upd_locked" /\ pc'[p] = "done") =>
              /\ cache' = [cache EXCEPT ![op[p]] =
                             [present |-> TRUE, start |-> args[p].start_ts,
                              end |-> args[p].end_ts, data |-> Fetched(p)]]
              /\ ret'[p] = Fetched(p)
         /\ cache' # cache => \E q \in Procs : pc[q] = "upd_locked" /\ pc'[q] = "done"]_vars

\* C9 witness: a query that missed on an entry of another range has fetched
\* [start_ts, end_ts] and is about to replace that entry.
EntryAboutToBeReplaced ==
    \E p \in Procs :
        /\ pc[p] = "upd_locked"
        /\ net[p]
        /\ firstReq[p].start = args[p].start_ts
        /\ firstReq[p].end = args[p].end_ts
        /\ args[p].end_at_least_ts # args[p].end_ts
        /\ cache[op[p]].present
        /\ cache[op[p]].end # args[p].end_ts
        /\ cache[op[p]].data # Fetched(p)
\* ------------------------------------------------ the lock and errors
Sections == SignedSection \cup CacheSection \cup {"mw_locked"}

\* C11: the lock is released on every exit of every locked section.  Only a
\* caller inside a section holds the lock; whenever a caller leaves a section,
\* by its normal end or by an error raised inside it (the POST fails, the cache
\* check or update fails), the lock is free in the same step, and an error
\* that ends the operation is the operation's error.
LockReleasedOnEveryExit ==
    [][\A p \in Procs :
         /\ lock' = p => pc'[p] \in Sections
         /\ (pc[p] \in Sections /\ pc'[p] \notin Sections) => lock' = NoProc
         /\ (pc[p] \in Sections /\ pc'[p] = "failed") => err'[p] # NoErr
         /\ (pc[p] = "api_post" /\ pc'[p] # "api_post" /\ outcome'[p] = "transient") =>
              (lock' = NoProc /\ pc'[p] \in {"api_sleep", "failed"})]_vars

\* C11 witness: a caller's cache section ended with an error, and another
\* caller has since taken the lock.
LockTakenAfterFailure ==
    \E p, q \in Procs :
        /\ p # q
        /\ pc[p] = "failed"
        /\ err[p].type = "IOError"
        /\ pc[q] \in Sections
        /\ lock = q
\* --------------------------------------------------- trade_from_poloniex
\* C12: for a raw trade with side buy or sell, cost = rate x amount in the
\* base asset of the pair; the fee of a buy is amount x fee_rate in the quote
\* asset, the fee of a sell is cost x fee_rate in the base asset.  With rate
\* 100, amount 2 and fee rate 0.01: cost 200, fee 0.02 (buy), 2.00 (sell).
TradeCostAndFee ==
    raw.type \in {"buy", "sell"} =>
        /\ trade.status = "ok"
        /\ trade.cost = raw.rate * raw.amount
        /\ trade.cost_currency = raw.pair[1]
        /\ raw.type = "buy" =>
             /\ trade.fee = raw.amount * raw.fee
             /\ trade.fee_currency = raw.pair[2]
        /\ raw.type = "sell" =>
             /\ trade.fee = raw.rate * raw.amount * raw.fee
             /\ trade.fee_currency = raw.pair[1]
        /\ (raw.rate = 100 /\ raw.amount = 2 /\ raw.fee = 1) =>
             /\ trade.cost = 200
             /\ trade.fee = IF raw.type = "buy" THEN 2 ELSE 200

\* C12 witness: the sell of the example has been converted.
ExampleSellConverted ==
    /\ raw.type = "sell"
    /\ raw.rate = 100
    /\ raw.amount = 2
    /\ raw.fee = 1
    /\ trade.status = "ok"
    /\ trade.fee = 200
    /\ trade.fee_currency = raw.pair[1]

\* C13: a raw trade whose type is neither 'buy' nor 'sell' makes
\* trade_from_poloniex raise ValueError, whatever its category: no Trade is
\* made of it, with no side at all.
UnknownSideRaises ==
    (raw.type # "none" /\ raw.type \notin {"buy", "sell"}) => trade = [status |-> "ValueError"]

\* C13 witness: a settlement of unknown side was refused.
UnknownSettlementRefused ==
    /\ raw.type = "short"
    /\ raw.category = "settlement"
    /\ trade.status = "ValueError"

\* C20: the timestamp of the Trade made of a buy or a sell is the number that
\* parsing the raw trade's date gives, not a container that holds it.
TimestampIsScalar ==
    raw.type \in {"buy", "sell"} =>
        trade.timestamp = Scalar(TradeTimeStamp(raw.date))
\* ------------------------------------------------ the CSV loan history
\* What the call does with the file it found: a well-formed file is returned
\* with no request and no cache access (the call is over at once); any other
\* file leaves the call where a call with from_csv unset is, which cannot
\* have failed before its first request and never returns a parsed file.
CsvCallAsSpecified(p) ==
    IF csvfile[p] = "ok"
    THEN /\ pc[p] = "done"
         /\ ret[p] = CsvPayload
         /\ ~net[p]
    ELSE /\ ~(pc[p] = "failed" /\ ~net[p])
         /\ ret[p] # CsvPayload

\* C14: query_loan_history with from_csv set returns the parsed rows of a
\* readable, well-formed file without a request or a cache access; with the
\* file missing or malformed it does not fail but goes the way of a call with
\* from_csv unset.
CsvPathContract ==
    \A p \in Procs :
        (op[p] = "loan_history" /\ from_csv[p]) => CsvCallAsSpecified(p)

\* The same for the files whose exception the call catches (no file, a file
\* the csv module rejects): this much holds.
CsvPathContractCaught ==
    \A p \in Procs :
        (op[p] = "loan_history" /\ from_csv[p] /\ csvfile[p] \in {"ok", "missing", "bad_csv"})
            => CsvCallAsSpecified(p)
\* ----------------------------------------------- the truncation signal
\* A response to a returnLendingHistory request of caller p arrives in this
\* step, and its rows are rows of the requested window.
LoanResponseStep(p) ==
    /\ AttemptStep(p)
    /\ op[p] = "loan_history"
    /\ outcome'[p] = "ok"
    /\ Range(batch'[p]) \subseteq Window(req[p].start, req[p].end)

\* What the loop does after a response: it stops when `stops`, and otherwise
\* asks for [start_ts, min_ts] with the same limit, min_ts being the smallest
\* close time among the rows of the response.
StopsOrAsksAgain(p, stops) ==
    IF stops
    THEN pc'[p] = "upd_wait"
    ELSE /\ pc'[p] = "api_call"
         /\ req'[p] = NewReq("returnLendingHistory", args[p].start_ts,
                             MinOf({closeOf[l] : l \in Range(batch'[p])}), PageLimit)

\* C15: after each response query_loan_history stops if and only if the
\* response holds strictly fewer rows than the page limit; after any other
\* response it asks for [start_ts, min_ts] with the same limit.
TruncationSignal ==
    [][\A p \in Procs :
         LoanResponseStep(p) => StopsOrAsksAgain(p, Len(batch'[p]) < PageLimit)]_vars

\* What the code does: it goes on exactly when the response holds as many
\* rows as the limit, and stops on fewer and on more.
TruncationSignalOnEquality ==
    [][\A p \in Procs :
         LoanResponseStep(p) => StopsOrAsksAgain(p, Len(batch'[p]) # PageLimit)]_vars
\* ------------------------------------------------- a fetch that fails
\* C16: when a request of a history fetch fails (RemoteError after the
\* retries, an error response), also in the middle of the loan pagination,
\* the operation ends with that error, returns nothing and writes nothing:
\* the cache is as it was, and it stays so until the caller's next operation.
FailedFetchLeavesCache ==
    [][\A p \in Procs :
         /\ (AttemptStep(p) /\ op[p] \in Kinds /\ outcome'[p] = "error") =>
              (pc'[p] = "failed" /\ err'[p].type = "PoloniexError")
         /\ (AttemptStep(p) /\ op[p] \in Kinds /\ outcome'[p] = "transient"
                 /\ attempts[p] + 1 = RetryTimes) =>
              (pc'[p] = "failed" /\ err'[p].type = "RemoteError")
         /\ (AttemptStep(p) /\ op[p] \in Kinds /\ pc'[p] = "failed") =>
              (cache' = cache /\ ret'[p] = NoPayload /\ data'[p] = <<>>)
         /\ (pc[p] = "failed" /\ op[p] \in Kinds) =>
              (cache' = cache /\ ret[p] = NoPayload)
         /\ cache' # cache => \E q \in Procs : pc[q] = "upd_locked" /\ pc'[q] = "done"]_vars

\* C16 witness: a loan history fetch failed after a full batch had arrived, and
\* the entry an earlier fetch wrote is still there.
PaginationAborted ==
    \E p \in Procs :
        /\ pc[p] = "failed"
        /\ op[p] = "loan_history"
        /\ err[p].type \in {"RemoteError", "PoloniexError"}
        /\ Len(batch[p]) = PageLimit
        /\ ret[p] = NoPayload
        /\ cache["loan_history"].present

\* ------------------------------------------------------ the Sign header
\* C18: every signed request the transport sends carries, as its Sign header,
\* the HMAC of its own body (command, parameters, nonce).
SignMatchesBody == wire.sign_ok

\* C18 witness: two signed requests have been sent, and a caller is about to
\* send another while a second caller waits for the lock.
SignedRequestsInterleaved ==
    /\ sentPrev # 0
    /\ wire.nonce # 0
    /\ wire.sign_ok
    /\ \E p, q \in Procs :
         /\ p # q
         /\ pc[p] = "api_post"
         /\ signHdr = Hmac(req[p])
         /\ pc[q] = "api_call"
         /\ req[q].command # "returnTicker"

\* ------------------------------------------------- one entry per kind
\* The payload tag of each kind of history.
TagOf(kind) ==
    CASE kind = "trades" -> "trades"
      [] kind = "loan_history" -> "loans"
      [] OTHER -> "deposits"

\* C19: the entries of the three kinds are kept apart: an entry changes only
\* by the cache update of a query of its own kind, a lookup is answered with
\* the payload of the entry of its own kind, and every entry holds a payload
\* of its kind.
KindsIsolated ==
    [][/\ \A k \in Kinds :
            cache'[k] # cache[k] =>
                \E q \in Procs : pc[q] = "upd_locked" /\ op[q] = k /\ pc'[q] = "done"
       /\ \A k \in Kinds : cache'[k].present => cache'[k].data.tag = TagOf(k)
       /\ \A p \in Procs :
            (pc[p] = "chk_locked" /\ pc'[p] = "done") =>
                (ret'[p] = cache[op[p]].data /\ ret'[p].tag = TagOf(op[p]))]_vars

\* C19 witness: with an entry of every kind in the cache, a loan history query
\* was answered from the loan history entry.
LoanLookupAmongThreeEntries ==
    \E p \in Procs :
        /\ pc[p] = "done"
        /\ op[p] = "loan_history"
        /\ ~net[p]
        /\ ret[p].tag = "loans"
        /\ cache["trades"].present
        /\ cache["deposits_withdrawals"].present
\* -------------------------------------------------------- termination
\* C17: against an endpoint that answers each request with at most `limit`
\* rows of the requested window, a loan history fetch that has gone to the
\* network comes to an end (it returns, or it fails on a request), also when
\* `limit` or more loans share a close time.
LoanPaginationTerminates ==
    \A p \in Procs :
        (endpoint # "any" /\ op[p] = "loan_history" /\ pc[p] = "api_call")
            ~> (pc[p] \in {"done", "failed"})
====
